---- MODULE Spec2Model ----
(***************************************************************************)
(* signal-future: a future that is resolved externally through a           *)
(* controller.  One State { value, waker } behind Arc<Mutex<..>>, shared   *)
(* by one SignalFuture and any number of SignalFutureController clones.    *)
(*                                                                         *)
(* signal() and poll() are modelled statement by statement, with the       *)
(* mutex as an explicit variable: the guard returned by lock() lives until *)
(* the end of the function body, so in signal() it is still held while     *)
(* waker.wake() runs.                                                      *)
(***************************************************************************)
EXTENDS Integers, Sequences, FiniteSets, TLC

\* ---------------------------------------------------------------- bounds

\* calls made in one behaviour: signal() calls, and polls by a task that was
\* not marked runnable (spurious polls); polls of runnable tasks are not counted
MaxOps == 3
\* controller handles besides the one returned by new()
MaxClones == 1

\* payloads (values of type T) passed to signal()
Values == {7, 42}
\* wakers handed to poll() through the Context, one per polling task
Wakers == {"w1", "w2"}
\* the task that awaits the future: the executor polls it once when spawned
Spawned == {"w1"}
\* payload types T that SignalFuture::<T>::new() can be called at: (), i32
PayloadTypes == {"unit", "int"}
\* addresses at which an Arc<Mutex<State>> can live
StateIds == {"s0", "s1"}
\* controller handles: 0 is the one returned by new(), the others are clones
Ctl == 0..MaxClones

\* ------------------------------------------------------------ Option<_>

None == <<>>
Some(x) == <<x>>
Unwrap(o) == o[1]

\* --------------------------------------------------------------- state

VARIABLES
  heap,      \* StateIds -> State { value: Option<T>, waker: Option<Waker> }
  lock,      \* StateIds -> holder of the Mutex: None or Some(thread)
  fut,       \* SignalFuture { shared_state }
  made,      \* the T new() was called at, and the payload types it returned
  ctl,       \* Ctl -> Option<SignalFutureController { shared_state }>
  pc,        \* Ctl -> position of the handle's thread inside signal()
  arg,       \* Ctl -> the `value` argument of the running signal()
  taken,     \* Ctl -> the `waker` local bound by `if let Some(waker)`
  pollPc,    \* position of the polling thread inside poll()
  cx,        \* the waker of the Context the running poll() was given
  runnable,  \* executor: tasks (wakers) marked runnable and not yet polled
  trace,     \* history: stores, wakes and poll results, in lock order
  calls,     \* history: signal() calls begun
  spurious   \* history: polls made by a task that was not runnable

vars == <<heap, lock, fut, made, ctl, pc, arg, taken, pollPc, cx, runnable,
          trace, calls, spurious>>

State(v, w) == [value |-> v, waker |-> w]

\* threads that can hold the mutex
FutThread == <<"fut">>
CtlThread(c) == <<"ctl", c>>

\* history events
Ev(op, c, v, w) == [op |-> op, c |-> c, v |-> v, w |-> w]
NoCtl == MaxClones + 1

Option(S) == {None} \cup {Some(x) : x \in S}

\* the shapes of State, SignalFuture and SignalFutureController
TypeOK ==
  /\ \A s \in StateIds :
       /\ heap[s].value \in Option(Values)
       /\ heap[s].waker \in Option(Wakers)
       /\ lock[s] \in Option({FutThread} \cup {CtlThread(c) : c \in Ctl})
  /\ fut.shared_state \in StateIds
  /\ \A c \in Ctl :
       /\ ctl[c] \in Option([shared_state : StateIds])
       /\ arg[c] \in Option(Values)
       /\ taken[c] \in Option(Wakers)
  /\ cx \in Option(Wakers)
  /\ runnable \subseteq Wakers
  /\ made \in [T : PayloadTypes, fut : PayloadTypes, ctl : PayloadTypes]

\* SignalFuture::new(): one State { None, None }, both handles point at it
NewState == State(None, None)
NewPair == [fut |-> [shared_state |-> "s0"], ctl |-> [shared_state |-> "s0"]]

\* impl<T> SignalFuture<T> {
\*   pub fn new() -> (SignalFuture, SignalFutureController)
\* the return type names both structs without a parameter, so both get the
\* default of `struct ..<T = ()>`, whatever T is
NewTypes(T) == [T |-> T, fut |-> "unit", ctl |-> "unit"]

\* the state after SignalFuture::<T>::new()
InitFor(T) ==
  /\ heap = [s \in StateIds |-> NewState]
  /\ lock = [s \in StateIds |-> None]
  /\ fut = NewPair.fut
  /\ made = NewTypes(T)
  /\ ctl = [c \in Ctl |-> IF c = 0 THEN Some(NewPair.ctl) ELSE None]
  /\ pc = [c \in Ctl |-> "idle"]
  /\ arg = [c \in Ctl |-> None]
  /\ taken = [c \in Ctl |-> None]
  /\ pollPc = "idle"
  /\ cx = None
  /\ runnable = Spawned
  /\ trace = <<>>
  /\ calls = 0
  /\ spurious = 0

\* the pair as the crate's documentation builds it
Init == InitFor("unit")

\* ----------------------------------------- SignalFutureController::clone

\* a deep clone: the new handle gets a State of its own
CloneHandleDeep(h) == [shared_state |-> "s1"]

\* #[derive(Clone)]: the clone's Arc points at the same State
CloneHandle(h) == [shared_state |-> h.shared_state]

Clone(c, d) ==
  /\ ctl[c] # None
  /\ ctl[d] = None
  /\ ctl' = [ctl EXCEPT ![d] = Some(CloneHandle(Unwrap(ctl[c])))]
  /\ UNCHANGED <<heap, lock, fut, made, pc, arg, taken, pollPc, cx, runnable,
                 trace, calls, spurious>>

\* a Drop impl that wakes the waiting task when a controller goes away
DropWakes(c) ==
  /\ ctl[c] # None
  /\ pc[c] = "idle"
  /\ lock[Unwrap(ctl[c]).shared_state] = None
  /\ ctl' = [ctl EXCEPT ![c] = None]
  /\ LET s == Unwrap(ctl[c]).shared_state
     IN IF heap[s].waker # None
          THEN /\ heap' = [heap EXCEPT ![s].waker = None]
               /\ runnable' = runnable \cup {Unwrap(heap[s].waker)}
               /\ trace' = Append(trace, Ev("wake", c, None, heap[s].waker))
          ELSE UNCHANGED <<heap, runnable, trace>>
  /\ UNCHANGED <<lock, fut, made, pc, arg, taken, pollPc, cx, calls, spurious>>

\* dropping a controller handle: no Drop impl, nothing but the handle goes
Drop(c) ==
  /\ ctl[c] # None
  /\ pc[c] = "idle"
  /\ ctl' = [ctl EXCEPT ![c] = None]
  /\ UNCHANGED <<heap, lock, fut, made, pc, arg, taken, pollPc, cx, runnable,
                 trace, calls, spurious>>

\* ---------------------------------------- SignalFutureController::signal

CtlState(c) == Unwrap(ctl[c]).shared_state

\* the if-let body left out: signal() stores and never wakes
NextStmtNoWake(s) ==
  CASE s = "lock" -> "store"
    [] s = "store" -> "take"
    [] s = "take" -> "unlock"
    [] s = "wake" -> "unlock"
    [] s = "unlock" -> "idle"

\* the waker is taken and woken before the payload is stored
NextStmtWakeFirst(s) ==
  CASE s = "lock" -> "take"
    [] s = "take" -> "wake"
    [] s = "wake" -> "store"
    [] s = "store" -> "unlock"
    [] s = "unlock" -> "idle"

\* program order of the body of signal(): the statement after statement s
NextStmt(s) ==
  CASE s = "lock" -> "store"
    [] s = "store" -> "take"
    [] s = "take" -> "wake"
    [] s = "wake" -> "unlock"
    [] s = "unlock" -> "idle"

\* let mut shared_state = self.shared_state.lock();
SignalLock(c, v) ==
  /\ ctl[c] # None
  /\ pc[c] = "idle"
  /\ calls + spurious < MaxOps
  /\ lock[CtlState(c)] = None
  /\ lock' = [lock EXCEPT ![CtlState(c)] = Some(CtlThread(c))]
  /\ pc' = [pc EXCEPT ![c] = NextStmt("lock")]
  /\ arg' = [arg EXCEPT ![c] = Some(v)]
  /\ calls' = calls + 1
  /\ UNCHANGED <<heap, fut, made, ctl, taken, pollPc, cx, runnable, trace, spurious>>

\* the store sits inside the if-let: no payload is kept unless a task waits
SignalStoreIfWaiting(c) ==
  /\ pc[c] = "store"
  /\ heap' = [heap EXCEPT ![CtlState(c)].value =
                 IF heap[CtlState(c)].waker # None THEN arg[c] ELSE @]
  /\ trace' = Append(trace, Ev("store", c, arg[c], None))
  /\ arg' = [arg EXCEPT ![c] = None]
  /\ pc' = [pc EXCEPT ![c] = NextStmt("store")]
  /\ UNCHANGED <<lock, fut, made, ctl, taken, pollPc, cx, runnable, calls,
                 spurious>>

\* the payload is stored only when none is there: the first signal wins
SignalStoreKeepFirst(c) ==
  /\ pc[c] = "store"
  /\ heap' = [heap EXCEPT ![CtlState(c)].value =
                 IF @ = None THEN arg[c] ELSE @]
  /\ trace' = Append(trace, Ev("store", c, arg[c], None))
  /\ arg' = [arg EXCEPT ![c] = None]
  /\ pc' = [pc EXCEPT ![c] = NextStmt("store")]
  /\ UNCHANGED <<lock, fut, made, ctl, taken, pollPc, cx, runnable, calls, spurious>>

\* shared_state.value = Some(value);
SignalStore(c) ==
  /\ pc[c] = "store"
  /\ heap' = [heap EXCEPT ![CtlState(c)].value = arg[c]]
  /\ trace' = Append(trace, Ev("store", c, arg[c], None))
  /\ arg' = [arg EXCEPT ![c] = None]
  /\ pc' = [pc EXCEPT ![c] = NextStmt("store")]
  /\ UNCHANGED <<lock, fut, made, ctl, taken, pollPc, cx, runnable, calls, spurious>>

\* the waker is cloned out of the slot, not taken: the slot stays full
SignalTakeKeeps(c) ==
  /\ pc[c] = "take"
  /\ taken' = [taken EXCEPT ![c] = heap[CtlState(c)].waker]
  /\ pc' = [pc EXCEPT ![c] =
              IF heap[CtlState(c)].waker # None
                THEN NextStmt("take") ELSE NextStmt(NextStmt("take"))]
  /\ UNCHANGED <<heap, lock, fut, made, ctl, arg, pollPc, cx, runnable, trace, calls,
                 spurious>>

\* if let Some(waker) = shared_state.waker.take()
\* (with None the body of the if is skipped)
SignalTake(c) ==
  /\ pc[c] = "take"
  /\ taken' = [taken EXCEPT ![c] = heap[CtlState(c)].waker]
  /\ heap' = [heap EXCEPT ![CtlState(c)].waker = None]
  /\ pc' = [pc EXCEPT ![c] =
              IF heap[CtlState(c)].waker # None
                THEN NextStmt("take") ELSE NextStmt(NextStmt("take"))]
  /\ UNCHANGED <<lock, fut, made, ctl, arg, pollPc, cx, runnable, trace, calls,
                 spurious>>

\* waker.wake(): the executor marks the waker's task runnable
SignalWake(c) ==
  /\ pc[c] = "wake"
  /\ runnable' = runnable \cup {Unwrap(taken[c])}
  /\ trace' = Append(trace, Ev("wake", c, None, taken[c]))
  /\ taken' = [taken EXCEPT ![c] = None]
  /\ pc' = [pc EXCEPT ![c] = NextStmt("wake")]
  /\ UNCHANGED <<heap, lock, fut, made, ctl, arg, pollPc, cx, calls, spurious>>

\* waker.wake() of a waker that runs its task on the spot: the task polls
\* the future (or signals through a clone) on this very thread, and that
\* call's lock() waits for the mutex, which this thread holds and which
\* parking_lot does not hand out twice.  The thread stays there.
SignalWakeReenters(c) ==
  /\ pc[c] = "wake"
  /\ lock[CtlState(c)] # None
  /\ trace' = Append(trace, Ev("wake", c, None, taken[c]))
  /\ taken' = [taken EXCEPT ![c] = None]
  /\ pc' = [pc EXCEPT ![c] = "blocked"]
  /\ UNCHANGED <<heap, lock, fut, made, ctl, arg, pollPc, cx, runnable, calls,
                 spurious>>

\* end of signal(): the guard is dropped
SignalUnlock(c) ==
  /\ pc[c] = "unlock"
  /\ lock' = [lock EXCEPT ![CtlState(c)] = None]
  /\ pc' = [pc EXCEPT ![c] = NextStmt("unlock")]
  /\ UNCHANGED <<heap, fut, made, ctl, arg, taken, pollPc, cx, runnable, trace,
                 calls, spurious>>

\* --------------------------------------------------- SignalFuture::poll

\* let mut shared_state = self.shared_state.lock();   (cx.waker() is w)
PollEnter(w) ==
  /\ pollPc = "idle"
  /\ lock[fut.shared_state] = None
  /\ lock' = [lock EXCEPT ![fut.shared_state] = Some(FutThread)]
  /\ cx' = Some(w)
  /\ pollPc' = "check"
  /\ runnable' = runnable \ {w}
  /\ UNCHANGED <<heap, fut, made, ctl, pc, arg, taken, trace, calls>>

\* the executor polls a task it had marked runnable
PollResume(w) ==
  /\ w \in runnable
  /\ PollEnter(w)
  /\ UNCHANGED spurious

\* a task polls the future without having been woken
PollSpurious(w) ==
  /\ w \notin runnable
  /\ calls + spurious < MaxOps
  /\ PollEnter(w)
  /\ spurious' = spurious + 1

\* a waker already registered is kept: the first registration wins
PollCheckKeepsFirst ==
  /\ pollPc = "check"
  /\ IF heap[fut.shared_state].value # None
       THEN /\ heap' = [heap EXCEPT ![fut.shared_state].value = None]
            /\ trace' = Append(trace,
                   Ev("Ready", NoCtl, heap[fut.shared_state].value, cx))
       ELSE /\ heap' = [heap EXCEPT ![fut.shared_state].waker =
                          IF @ = None THEN cx ELSE @]
            /\ trace' = Append(trace, Ev("Pending", NoCtl, None, cx))
  /\ pollPc' = "ret"
  /\ UNCHANGED <<lock, fut, made, ctl, pc, arg, taken, cx, runnable, calls, spurious>>

\* the waker is stored before the payload is looked at, on both branches
PollCheckAlwaysRegisters ==
  /\ pollPc = "check"
  /\ IF heap[fut.shared_state].value # None
       THEN /\ heap' = [heap EXCEPT ![fut.shared_state] = State(None, cx)]
            /\ trace' = Append(trace,
                   Ev("Ready", NoCtl, heap[fut.shared_state].value, cx))
       ELSE /\ heap' = [heap EXCEPT ![fut.shared_state].waker = cx]
            /\ trace' = Append(trace, Ev("Pending", NoCtl, None, cx))
  /\ pollPc' = "ret"
  /\ UNCHANGED <<lock, fut, made, ctl, pc, arg, taken, cx, runnable, calls, spurious>>

\* the payload is read but not taken: it persists as a durable flag
PollCheckPeeks ==
  /\ pollPc = "check"
  /\ IF heap[fut.shared_state].value # None
       THEN /\ heap' = heap
            /\ trace' = Append(trace,
                   Ev("Ready", NoCtl, heap[fut.shared_state].value, cx))
       ELSE /\ heap' = [heap EXCEPT ![fut.shared_state].waker = cx]
            /\ trace' = Append(trace, Ev("Pending", NoCtl, None, cx))
  /\ pollPc' = "ret"
  /\ UNCHANGED <<lock, fut, made, ctl, pc, arg, taken, cx, runnable, calls, spurious>>

\* if let Some(v) = shared_state.value.take() { Poll::Ready(v) }
\* else { shared_state.waker = Some(cx.waker().clone()); Poll::Pending }
PollCheck ==
  /\ pollPc = "check"
  /\ IF heap[fut.shared_state].value # None
       THEN /\ heap' = [heap EXCEPT ![fut.shared_state].value = None]
            /\ trace' = Append(trace,
                   Ev("Ready", NoCtl, heap[fut.shared_state].value, cx))
       ELSE /\ heap' = [heap EXCEPT ![fut.shared_state].waker = cx]
            /\ trace' = Append(trace, Ev("Pending", NoCtl, None, cx))
  /\ pollPc' = "ret"
  /\ UNCHANGED <<lock, fut, made, ctl, pc, arg, taken, cx, runnable, calls, spurious>>

\* end of poll(): the guard is dropped, the result is returned
PollUnlock ==
  /\ pollPc = "ret"
  /\ lock' = [lock EXCEPT ![fut.shared_state] = None]
  /\ pollPc' = "idle"
  /\ cx' = None
  /\ UNCHANGED <<heap, fut, made, ctl, pc, arg, taken, runnable, trace, calls,
                 spurious>>

\* -------------------------------------------------------- specification

Next ==
  \/ \E c \in Ctl, d \in Ctl : Clone(c, d)
  \/ \E c \in Ctl : Drop(c)
  \/ \E c \in Ctl, v \in Values : SignalLock(c, v)
  \/ \E c \in Ctl : SignalStore(c)
  \/ \E c \in Ctl : SignalTake(c)
  \/ \E c \in Ctl : SignalWake(c)
  \/ \E c \in Ctl : SignalWakeReenters(c)
  \/ \E c \in Ctl : SignalUnlock(c)
  \/ \E w \in Wakers : PollResume(w)
  \/ \E w \in Wakers : PollSpurious(w)
  \/ PollCheck
  \/ PollUnlock

Spec == Init /\ [][Next]_vars

\* the same, with new() called at any payload type
GenericSpec == (\E T \in PayloadTypes : InitFor(T)) /\ [][Next]_vars

\* The behaviours with one signal() call and wakers that only mark their task
\* runnable (the task is polled on another thread), under a fair scheduler:
\* a thread inside signal() or poll() runs on to the end of the call, and the
\* executor polls every task that is marked runnable.  Nothing obliges anybody
\* to call signal(), to poll unasked, to clone or to drop a handle.
OneSignalNext ==
  \/ \E c \in Ctl, d \in Ctl : Clone(c, d)
  \/ \E c \in Ctl : Drop(c)
  \/ \E c \in Ctl, v \in Values : calls = 0 /\ SignalLock(c, v)
  \/ \E c \in Ctl : SignalStore(c)
  \/ \E c \in Ctl : SignalTake(c)
  \/ \E c \in Ctl : SignalWake(c)
  \/ \E c \in Ctl : SignalUnlock(c)
  \/ \E w \in Wakers : PollResume(w)
  \/ \E w \in Wakers : PollSpurious(w)
  \/ PollCheck
  \/ PollUnlock

SignalStep(c) ==
  SignalStore(c) \/ SignalTake(c) \/ SignalWake(c) \/ SignalUnlock(c)

PollStep == PollCheck \/ PollUnlock

Fairness ==
  /\ \A w \in Wakers : WF_vars(PollResume(w))
  /\ WF_vars(PollStep)
  /\ \A c \in Ctl : WF_vars(SignalStep(c))

FairSpec == Init /\ [][OneSignalNext]_vars /\ Fairness

\* ------------------------------------------------- reading the history

Idx == 1..Len(trace)
IsPoll(e) == e.op \in {"Ready", "Pending"}
IsStore(e) == e.op = "store"
IsWake(e) == e.op = "wake"

\* the last event before position i whose op is in ops (0 when there is none)
LastBefore(i, ops) ==
  LET js == {j \in 1..(i - 1) : trace[j].op \in ops}
  IN IF js = {} THEN 0 ELSE CHOOSE j \in js : \A k \in js : k <= j

\* the first event after position i whose op is in ops (0 when there is none)
FirstAfter(i, ops) ==
  LET js == {j \in (i + 1)..Len(trace) : trace[j].op \in ops}
  IN IF js = {} THEN 0 ELSE CHOOSE j \in js : \A k \in js : j <= k

\* the waker a Pending poll left registered and no signal() has woken yet,
\* as event i finds it
RegisteredAt(i) ==
  LET j == LastBefore(i, {"Pending", "wake"})
  IN IF j # 0 /\ trace[j].op = "Pending" THEN trace[j].w ELSE None

\* a signal() is between its store and the end of its wake
Signalling == \E c \in Ctl : pc[c] \in {"take", "wake"}

\* the signal() call that made store i has run to the end of its if-let
Settled(i) == i < Len(trace) \/ ~Signalling

\* -------------------------------------------------------------- claims

\* C1: when signal(v) has been called before the future was ever polled,
\* the first poll returns Ready(v) at once: it does not return Pending and it
\* registers no waker (the waker slot is still empty when it returns).
C1_SignalBeforeFirstPoll ==
  \A i \in Idx :
    (IsPoll(trace[i]) /\ LastBefore(i, {"Ready", "Pending"}) = 0
       /\ LastBefore(i, {"store"}) # 0) =>
      /\ trace[i].op = "Ready"
      /\ trace[i].v = trace[LastBefore(i, {"store"})].v
      /\ (i = Len(trace) => heap[fut.shared_state].waker = None)

\* C1 witness: signal(42) alone, then the first poll, which returned Ready(42)
C1_Witness ==
  /\ Len(trace) = 2
  /\ trace[1].op = "store" /\ trace[1].v = Some(42)
  /\ trace[2].op = "Ready" /\ trace[2].v = Some(42)
  /\ pollPc = "idle"

\* C2: when the future is polled first (Pending, waker w registered) and
\* signal(v) is then called, that call wakes w exactly once, and the next
\* poll returns Ready(v) (v being the last payload stored before that poll).
C2_PollThenSignal ==
  \A i \in Idx :
    (IsStore(trace[i]) /\ RegisteredAt(i) # None /\ Settled(i)) =>
      /\ i + 1 <= Len(trace)
      /\ trace[i + 1] = Ev("wake", trace[i].c, None, RegisteredAt(i))
      /\ (i + 2 <= Len(trace) => ~IsWake(trace[i + 2]))
      /\ LET k == FirstAfter(i, {"Ready", "Pending"})
         IN k # 0 =>
              /\ trace[k].op = "Ready"
              /\ trace[k].v = trace[LastBefore(k, {"store"})].v
              /\ (FirstAfter(i, {"store"}) \in {0} \cup (k + 1)..Len(trace)
                    => trace[k].v = trace[i].v)

\* C2 witness: poll (Pending, w1), signal(42) woke w1, the re-poll gave 42
C2_Witness ==
  /\ Len(trace) = 4
  /\ trace[1] = Ev("Pending", NoCtl, None, Some("w1"))
  /\ trace[2].op = "store" /\ trace[2].v = Some(42)
  /\ trace[3].op = "wake" /\ trace[3].w = Some("w1")
  /\ trace[4] = Ev("Ready", NoCtl, Some(42), Some("w1"))

\* C3: a signal is never lost.  Safety: whenever a payload is stored and the
\* last poll returned Pending to task w, a wake of w has been issued since
\* that poll and w is runnable (or no signal() has finished its wake yet).
\* Liveness, under the fair scheduler and with signal(v) the one signal call:
\* some poll eventually returns Ready(v).
Suspended(i) ==
  /\ trace[i].op = "Pending"
  /\ FirstAfter(i, {"Ready", "Pending"}) = 0
  /\ pollPc # "check"

NoLostWake ==
  \A i \in Idx :
    (Suspended(i) /\ FirstAfter(i, {"store"}) # 0 /\ ~Signalling) =>
      /\ \E j \in (i + 1)..Len(trace) : trace[j].op = "wake" /\ trace[j].w = trace[i].w
      /\ Unwrap(trace[i].w) \in runnable

OnlySignal(v) == calls = 1 /\ \E c \in Ctl : arg[c] = Some(v)

Delivered(v) == \E i \in Idx : trace[i].op = "Ready" /\ trace[i].v = Some(v)

C3_SignalNeverLost ==
  /\ []NoLostWake
  /\ \A v \in Values : OnlySignal(v) ~> Delivered(v)

\* C3 witness: the one signal(7) came while the task was suspended, and the
\* task, woken and polled again, got Ready(7)
C3_Witness ==
  /\ calls = 1
  /\ Len(trace) = 4
  /\ trace[1].op = "Pending"
  /\ trace[2].op = "store" /\ trace[2].v = Some(7)
  /\ trace[4].op = "Ready" /\ trace[4].v = Some(7)

\* C4: no false resolution.  As long as no controller handle has called
\* signal, with every handle dropped too, every poll has returned Pending, no
\* wake has been issued, no task has been marked runnable and no payload is
\* there for a later poll to find.
C4_NoFalseResolution ==
  calls = 0 =>
    /\ \A i \in Idx : trace[i].op = "Pending"
    /\ runnable \subseteq Spawned
    /\ heap[fut.shared_state].value = None

\* C4 witness: every controller handle is dropped, signal was never called,
\* and the future has been polled twice
C4_Witness ==
  /\ calls = 0
  /\ \A c \in Ctl : ctl[c] = None
  /\ Len(trace) = 2
  /\ pollPc = "idle"

\* C5: every controller handle, the original or a clone, points at the State
\* the future points at, and signal(v) on any of them acts on that State: it
\* wakes the waker registered there, and v is the payload of the future's
\* State until a poll takes it or a later signal replaces it.
C5_ClonesShareState ==
  /\ \A c \in Ctl : ctl[c] # None => CtlState(c) = fut.shared_state
  /\ \A i \in Idx :
       (IsStore(trace[i]) /\ Settled(i)) =>
         /\ RegisteredAt(i) # None =>
              /\ i + 1 <= Len(trace)
              /\ trace[i + 1].op = "wake"
              /\ trace[i + 1].w = RegisteredAt(i)
         /\ FirstAfter(i, {"Ready", "store"}) = 0 =>
              heap[fut.shared_state].value = trace[i].v

\* C5 witness: the original controller is dropped, a clone alone called
\* signal(42) while w1 was registered, w1 was woken and its poll gave 42
C5_Witness ==
  /\ ctl[0] = None
  /\ Len(trace) = 4
  /\ trace[1] = Ev("Pending", NoCtl, None, Some("w1"))
  /\ trace[2] = Ev("store", 1, Some(42), None)
  /\ trace[3] = Ev("wake", 1, None, Some("w1"))
  /\ trace[4].op = "Ready" /\ trace[4].v = Some(42)

\* The resumed poll k of C6: the poll before it returned Pending, and between
\* the two a signal from one handle (the first, which woke the waker) was
\* followed by a signal from another handle.
FirstSignalSince(k) == FirstAfter(LastBefore(k, {"Ready", "Pending"}), {"store"})

ResumedAfterTwoSignals(k) ==
  /\ trace[k].op = "Ready"
  /\ LastBefore(k, {"Ready", "Pending"}) # 0
  /\ trace[LastBefore(k, {"Ready", "Pending"})].op = "Pending"
  /\ \E i \in (FirstSignalSince(k) + 1)..(k - 1) :
       IsStore(trace[i]) /\ trace[i].c # trace[FirstSignalSince(k)].c

\* C6 as claimed: signalled from more than one controller clone after a poll
\* registered the waker, the resumed poll yields the payload of the first
\* signal call, the one that preceded the wake; a later signal from another
\* clone running before the resumed poll does not change the value.
C6_FirstSignalWins ==
  \A k \in Idx :
    ResumedAfterTwoSignals(k) => trace[k].v = trace[FirstSignalSince(k)].v

\* C6 amended: signalled from more than one controller clone after a poll
\* registered the waker, only the first call wakes the waker, and the resumed
\* poll yields the payload of the last signal call made before it.
C6_LastSignalWins ==
  \A k \in Idx :
    ResumedAfterTwoSignals(k) =>
      /\ trace[k].v = trace[LastBefore(k, {"store"})].v
      /\ trace[FirstSignalSince(k) + 1].op = "wake"
      /\ \A j \in (FirstSignalSince(k) + 2)..(k - 1) : ~IsWake(trace[j])

\* C6 witness: w1 suspended, signal(7) on the original woke it, signal(42) on
\* the clone followed, and the resumed poll returned 42
C6_Witness ==
  /\ Len(trace) = 5
  /\ trace[1] = Ev("Pending", NoCtl, None, Some("w1"))
  /\ trace[2] = Ev("store", 0, Some(7), None)
  /\ trace[3] = Ev("wake", 0, None, Some("w1"))
  /\ trace[4] = Ev("store", 1, Some(42), None)
  /\ trace[5] = Ev("Ready", NoCtl, Some(42), Some("w1"))

\* C7 as claimed: a signal called when the future has resolved and its value
\* has been taken (the last poll before it returned Ready) has no effect on
\* the future: it wakes nothing and no later poll returns Ready again.
C7_SignalAfterResolvedInert ==
  \A i \in Idx :
    (/\ IsStore(trace[i])
     /\ LastBefore(i, {"Ready", "Pending"}) # 0
     /\ trace[LastBefore(i, {"Ready", "Pending"})].op = "Ready") =>
      /\ i + 1 <= Len(trace) => ~IsWake(trace[i + 1])
      /\ FirstAfter(i, {"Ready"}) = 0

\* C8: a signal call wakes once when a waker is registered as it holds the
\* lock and not at all otherwise; either way, when it returns, its payload
\* is stored and the waker slot is empty.  So no registration of a waker is
\* woken by two signal calls.
WakesAfter(i) == {j \in (i + 1)..Len(trace) : IsWake(trace[j])}

C8_WakePerSignal ==
  /\ \A c \in Ctl :
       pc[c] = "unlock" =>
         LET i == LastBefore(Len(trace) + 1, {"store"})
         IN /\ i # 0
            /\ trace[i].c = c
            /\ heap[CtlState(c)].value = trace[i].v
            /\ heap[CtlState(c)].waker = None
            /\ Cardinality(WakesAfter(i)) = IF RegisteredAt(i) # None THEN 1 ELSE 0
            /\ \A j \in WakesAfter(i) : trace[j].c = c /\ trace[j].w = RegisteredAt(i)
  /\ \A p \in Idx :
       trace[p].op = "Pending" =>
         Cardinality({j \in WakesAfter(p) : LastBefore(j, {"Pending"}) = p}) <= 1

\* C8 witness: a second signal call is about to return; the first one found
\* w1 registered and woke it, this one found the slot empty and woke nothing
C8_Witness ==
  /\ pc[1] = "unlock"
  /\ Len(trace) = 4
  /\ trace[1] = Ev("Pending", NoCtl, None, Some("w1"))
  /\ trace[2].op = "store" /\ trace[2].c = 0
  /\ trace[3] = Ev("wake", 0, None, Some("w1"))
  /\ trace[4].op = "store" /\ trace[4].c = 1

\* C9: last registration wins.  The slot holds the waker of the latest poll
\* that returned Pending (and no other), and a signal wakes that waker only:
\* after polls with w1 and then w2, the signal wakes w2 and never w1.
C9_LastRegistrationWins ==
  /\ \A j \in Idx :
       IsWake(trace[j]) =>
         /\ LastBefore(j, {"Pending"}) # 0
         /\ trace[j].w = trace[LastBefore(j, {"Pending"})].w
  /\ (\A c \in Ctl : pc[c] # "wake") =>
       heap[fut.shared_state].waker = RegisteredAt(Len(trace) + 1)

\* C9 witness: polled with w1, polled again with w2, and the signal woke w2
C9_Witness ==
  /\ Len(trace) = 4
  /\ trace[1] = Ev("Pending", NoCtl, None, Some("w1"))
  /\ trace[2] = Ev("Pending", NoCtl, None, Some("w2"))
  /\ trace[3].op = "store"
  /\ trace[4].op = "wake" /\ trace[4].w = Some("w2")
  /\ runnable = {"w2"}

\* C10: the payload is written before the waker is woken.  When signal() is
\* about to wake, the payload is in the State; every wake comes right after
\* the store of the same call; and the first poll after a wake returns Ready.
C10_StoreBeforeWake ==
  /\ \A c \in Ctl : pc[c] = "wake" => heap[CtlState(c)].value # None
  /\ \A j \in Idx :
       IsWake(trace[j]) =>
         /\ j > 1
         /\ IsStore(trace[j - 1])
         /\ trace[j - 1].c = trace[j].c
         /\ FirstAfter(j, {"Ready", "Pending"}) # 0 =>
              trace[FirstAfter(j, {"Ready", "Pending"})].op = "Ready"

\* C10 witness: w2 was suspended, signal(7) stored and then woke it, and the
\* poll that ran because of the wake returned Ready(7)
C10_Witness ==
  /\ Len(trace) = 5
  /\ trace[2] = Ev("Pending", NoCtl, None, Some("w2"))
  /\ trace[3].op = "store" /\ trace[3].v = Some(7)
  /\ trace[4].op = "wake" /\ trace[4].w = Some("w2")
  /\ trace[5] = Ev("Ready", NoCtl, Some(7), Some("w2"))

\* C11 as claimed: the lock is held only for the read-modify-write of
\* payload and waker.  When signal() invokes wake on the waker it took, its
\* thread does not hold the mutex, and so no signal() call is ever stuck
\* inside a wake that polls the same future or signals through a clone.
C11_WakeOutsideLock ==
  /\ \A c \in Ctl :
       (ctl[c] # None /\ pc[c] = "wake") =>
         lock[CtlState(c)] # Some(CtlThread(c))
  /\ \A c \in Ctl : pc[c] # "blocked"

\* C12 as claimed: the constructor is generic in the payload type.  Called
\* at payload type T it returns a SignalFuture<T> and a
\* SignalFutureController<T> (so that an integer can be signalled through the
\* pair made at an integer type), both pointing at one State that starts with
\* no payload and no waker.
C12_NewIsGeneric ==
  /\ made.fut = made.T
  /\ made.ctl = made.T
  /\ (trace = <<>> /\ calls = 0 /\ pollPc = "idle" /\ ctl[0] # None) =>
       /\ CtlState(0) = fut.shared_state
       /\ heap[fut.shared_state] = NewState

\* the payload as event i finds it: what the last signal stored, unless a
\* poll has returned Ready (and taken it) since
PayloadAt(i) ==
  LET j == LastBefore(i, {"store", "Ready"})
  IN IF j # 0 /\ trace[j].op = "store" THEN trace[j].v ELSE None

\* C13: a poll returns Pending exactly when the payload is absent as it
\* holds the lock, and Ready (with that payload) exactly when it is present.
\* So a poll before any signal returns Pending, and the poll after a signal
\* returns Ready.  The payload in the State is the one the history gives.
C13_PendingIffAbsent ==
  /\ pollPc = "check" => lock[fut.shared_state] = Some(FutThread)
  /\ heap[fut.shared_state].value = PayloadAt(Len(trace) + 1)
  /\ \A i \in Idx :
       IsPoll(trace[i]) =>
         /\ trace[i].op = "Pending" <=> PayloadAt(i) = None
         /\ trace[i].op = "Ready" <=> PayloadAt(i) # None
         /\ trace[i].v = PayloadAt(i)

\* C13 witness: a poll before any signal returned Pending, and the poll made
\* after the signal returned Ready
C13_Witness ==
  /\ Len(trace) = 4
  /\ trace[1].op = "Pending"
  /\ trace[2].op = "store"
  /\ trace[3].op = "wake"
  /\ trace[4].op = "Ready"
  /\ pollPc = "idle"
  /\ calls = 1 /\ spurious = 0

\* C14 as claimed: a waker is registered in the State only if no poll has yet
\* returned Ready and some poll has returned Pending; once a poll has returned
\* Ready the waker slot is never Some again.
C14_WakerOnlyBeforeReady ==
  heap[fut.shared_state].waker # None =>
    /\ \E i \in Idx : trace[i].op = "Pending"
    /\ \A i \in Idx : trace[i].op # "Ready"

\* C14: a waker is registered in the State only if some poll has returned
\* Pending and, since the last such poll, no poll has returned Ready and no
\* signal call has taken the waker; it is the waker of that last Pending poll.
\* A poll that follows a Ready registers a waker again.
C14_WakerOnlyWhileSuspended ==
  heap[fut.shared_state].waker # None =>
    LET p == LastBefore(Len(trace) + 1, {"Pending"})
    IN /\ p # 0
       /\ heap[fut.shared_state].waker = trace[p].w
       /\ FirstAfter(p, {"Ready", "wake"}) = 0
       /\ FirstAfter(p, {"store"}) # 0 => \E c \in Ctl : pc[c] = "take"

\* C14 witness: a poll returned Ready, a further poll returned Pending, and
\* its waker sits in the State with the lock released
C14_Witness ==
  /\ Len(trace) = 3
  /\ trace[1].op = "store"
  /\ trace[2].op = "Ready"
  /\ trace[3] = Ev("Pending", NoCtl, None, Some("w2"))
  /\ heap[fut.shared_state].waker = Some("w2")
  /\ lock[fut.shared_state] = None

\* C15 as claimed: signalling wakes at most once; only the first signal call
\* of an execution can perform a wake, whatever polls happen between the calls.
C15_WakeAtMostOnce ==
  \A j \in Idx :
    IsWake(trace[j]) =>
      LastBefore(LastBefore(j, {"store"}), {"store"}) = 0

\* C16: when signal(a) and then signal(b) are called with no poll taking the
\* payload in between, the second call finds no waker and runs to its end
\* without waking anything or failing, the stored payload becomes b, the
\* next poll returns Ready(b), and no poll yields a unless a later signal call
\* supplies that value again.
C16_OverwriteSilent ==
  \A i \in Idx :
    IsStore(trace[i]) =>
      LET j == FirstAfter(i, {"store", "Ready"})
          k == FirstAfter(j, {"store", "Ready"})
      IN (j # 0 /\ IsStore(trace[j])) =>
           /\ k = 0 => heap[fut.shared_state].value = trace[j].v
           /\ (k # 0 /\ trace[k].op = "Ready") => trace[k].v = trace[j].v
           /\ j < Len(trace) => ~IsWake(trace[j + 1])
           /\ j = Len(trace) => \A c \in Ctl : pc[c] \notin {"wake", "blocked"}
           /\ \A r \in (i + 1)..Len(trace) :
                (trace[r].op = "Ready" /\ trace[r].v = trace[i].v) =>
                  \E m \in j..(r - 1) :
                    IsStore(trace[m]) /\ trace[m].v = trace[i].v

\* C16 witness: signal(7), signal(42), and the poll that followed returned 42
C16_Witness ==
  /\ Len(trace) = 3
  /\ trace[1].op = "store" /\ trace[1].v = Some(7)
  /\ trace[2].op = "store" /\ trace[2].v = Some(42)
  /\ trace[3].op = "Ready" /\ trace[3].v = Some(42)
  /\ heap[fut.shared_state].value = None

\* C17: the payload is taken by the poll that returns Ready.  After a poll has
\* returned Ready, a further poll with no signal in between returns Pending
\* and leaves the caller's waker registered; it does not resolve again.
C17_MarkerConsumed ==
  /\ (trace # <<>> /\ trace[Len(trace)].op = "Ready") =>
       heap[fut.shared_state].value = None
  /\ \A i \in Idx :
       trace[i].op = "Ready" =>
         LET k == FirstAfter(i, {"store", "Ready", "Pending"})
         IN (k # 0 /\ IsPoll(trace[k])) =>
              /\ trace[k].op = "Pending"
              /\ trace[k].w # None
              /\ k = Len(trace) => heap[fut.shared_state].waker = trace[k].w

\* C17 witness: the task suspended, was woken by a signal and resolved; the
\* poll after that returned Pending and its waker is registered
C17_Witness ==
  /\ Len(trace) = 5
  /\ trace[1].op = "Pending"
  /\ trace[2].op = "store"
  /\ trace[3].op = "wake"
  /\ trace[4].op = "Ready"
  /\ trace[5].op = "Pending"
  /\ heap[fut.shared_state] = State(None, trace[5].w)
  /\ pollPc = "idle"

\* C18: whenever the lock is not held, the payload and the waker are not both
\* present: a signal call leaves the payload present and the waker empty, a
\* Ready poll leaves both empty, a Pending poll leaves the payload empty and
\* the waker present.
C18_NotBothPresent ==
  \A s \in StateIds :
    lock[s] = None =>
      /\ ~(heap[s].value # None /\ heap[s].waker # None)
      /\ (s = fut.shared_state /\ trace # <<>>) =>
           LET e == trace[Len(trace)]
           IN /\ e.op \in {"store", "wake"} =>
                   heap[s].value # None /\ heap[s].waker = None
              /\ e.op = "Ready" => heap[s] = State(None, None)
              /\ e.op = "Pending" => heap[s] = State(None, e.w)

\* C18 witness: a poll registered a waker, a signal call stored the payload,
\* took the waker and woke it, and has released the lock
C18_Witness ==
  /\ Len(trace) = 3
  /\ trace[1].op = "Pending"
  /\ trace[2].op = "store"
  /\ trace[3].op = "wake"
  /\ lock[fut.shared_state] = None
  /\ heap[fut.shared_state] = State(trace[2].v, None)

ReadyPolls == {k \in Idx : trace[k].op = "Ready"}
SignalStores == {i \in Idx : IsStore(trace[i])}

\* C19: the polls that returned Ready never outnumber the signal calls made
\* so far, each Ready(v) carries the value of the most recent signal call
\* before that poll, and no signal call's value is yielded by two polls.
C19_ReadyPerSignal ==
  /\ Cardinality(ReadyPolls) <= Cardinality(SignalStores)
  /\ Cardinality(SignalStores) <= calls
  /\ \A k \in ReadyPolls :
       /\ LastBefore(k, {"store"}) # 0
       /\ trace[k].v = trace[LastBefore(k, {"store"})].v
  /\ \A k1, k2 \in ReadyPolls :
       k1 # k2 => LastBefore(k1, {"store"}) # LastBefore(k2, {"store"})

\* C19 witness: two signal calls, each followed by a poll that returned its
\* value
C19_Witness ==
  /\ Len(trace) = 4
  /\ trace[1].op = "store" /\ trace[2].op = "Ready"
  /\ trace[3].op = "store" /\ trace[4].op = "Ready"
  /\ trace[2].v = trace[1].v /\ trace[4].v = trace[3].v
  /\ trace[1].v # trace[3].v

====
